---- MODULE Spec2Model ----
(***************************************************************************)
(* octodns-sakuracloud: the remote zone directory (SakuraCloudAPI), the    *)
(* record-set decoder (populate) and encoder (_apply) of                   *)
(* SakuraCloudProvider.                                                    *)
(*                                                                         *)
(* A text (Python str) is a sequence of atoms.  The atoms " ", "\"", ";"   *)
(* and "\\" are the characters the code and the rdata grammars look at;    *)
(* every other atom is a run of characters none of them inspects.          *)
(***************************************************************************)
EXTENDS Integers, Sequences, FiniteSets, Bags, TLC

VARIABLES
    remote,                   \* the account's CommonServiceItems, as the API holds them
    mapIsNone,                \* self._common_service_item_map is None
    common_service_item_map,  \* self._common_service_item_map when it is a dict
    op,                       \* the call that just ended: name, arguments, outcome (NoOp between calls)
    http,                     \* the HTTP requests that call issued, in order
    calls,                    \* the directory calls that call made, when it is _apply
    nGet,                     \* bulk fetches issued in the session so far
    fetched,                  \* the item list the successful bulk fetch returned
    created,                  \* zone name -> handle of the last create response
    desired,                  \* codec: the structured record set given to the encoder
    rrsets,                   \* codec: the rows the encoder produced
    decoded,                  \* codec: the outcome of decoding rrsets
    phase                     \* codec: "new", "encoded", "decoded"

vars == <<remote, mapIsNone, common_service_item_map, op, http, calls, nGet,
          fetched, created, desired, rrsets, decoded, phase>>
dirVars == <<remote, mapIsNone, common_service_item_map, op, http, calls, nGet,
             fetched, created>>
codecVars == <<desired, rrsets, decoded, phase>>

----------------------------------------------------------------------------
(* Bounds of the model. *)
MaxItems == 2       \* remote resources the account may hold
MaxRecords == 2     \* records of a desired zone in the codec specification
MaxRows == 3        \* rows of a remote zone in the populate specification
CHUNK_SIZE == 2     \* atoms per TXT chunk (255 characters upstream)

----------------------------------------------------------------------------
(* Text helpers: what str.replace, str.split and str.join do. *)
SP == " "
DQ == "\""
SEMI == ";"
BS == "\\"

IsPrefix(p, s) == Len(p) <= Len(s) /\ SubSeq(s, 1, Len(p)) = p

RECURSIVE Replace(_, _, _)
Replace(s, old, new) ==
    IF s = <<>> THEN <<>>
    ELSE IF IsPrefix(old, s)
         THEN new \o Replace(SubSeq(s, Len(old) + 1, Len(s)), old, new)
         ELSE <<Head(s)>> \o Replace(Tail(s), old, new)

RECURSIVE SplitAcc(_, _, _)
SplitAcc(s, sep, cur) ==
    IF s = <<>> THEN <<cur>>
    ELSE IF Head(s) = sep
         THEN <<cur>> \o SplitAcc(Tail(s), sep, <<>>)
         ELSE SplitAcc(Tail(s), sep, Append(cur, Head(s)))

Split(s, sep) == SplitAcc(s, sep, <<>>)

RECURSIVE Join(_, _)
Join(parts, sep) ==
    IF parts = <<>> THEN <<>>
    ELSE IF Len(parts) = 1 THEN parts[1]
    ELSE parts[1] \o sep \o Join(Tail(parts), sep)

(* str(int) and int(str) on the numerals of the model. *)
Numerals == <<"0", "1", "2", "3">>
IntStr(n) == Numerals[n + 1]
IsNumeral(a) == \E n \in 1..Len(Numerals) : Numerals[n] = a
StrInt(a) == (CHOOSE n \in 1..Len(Numerals) : Numerals[n] = a) - 1

----------------------------------------------------------------------------
_add_trailing_dot(value) ==
    IF Len(value) > 0 /\ value[Len(value)] # "." THEN Append(value, ".") ELSE value

_remove_trailing_dot(value) ==
    IF Len(value) > 0 /\ value[Len(value)] = "." THEN SubSeq(value, 1, Len(value) - 1)
    ELSE value

----------------------------------------------------------------------------
(* The record model.  A structured record is                               *)
(*   [name, type, ttl, values]  with values a sequence of typed values;    *)
(* a typed value is a record whose fields depend on the type.  A raw row   *)
(* is [Name, Type, RData] with an optional TTL field.                      *)
SUPPORTS ==
    {"A", "AAAA", "ALIAS", "CAA", "CNAME", "HTTPS", "MX", "NS", "PTR", "SRV",
     "SVCB", "TXT"}

DEFAULT_TTL == 3600

TargetTypes == {"A", "AAAA", "ALIAS", "CNAME", "NS", "PTR"}
ServiceTypes == {"HTTPS", "SVCB"}

(* Upstream text-rdata codecs, as the encoder and the decoder call them.   *)
RECURSIVE Chunks(_)
Chunks(s) ==
    IF Len(s) <= CHUNK_SIZE THEN <<s>>
    ELSE <<SubSeq(s, 1, CHUNK_SIZE)>> \o Chunks(SubSeq(s, CHUNK_SIZE + 1, Len(s)))

\* _ChunkedValuesMixin.chunked_value: quote, escape, split into chunks
chunked_value(v) ==
    <<DQ>> \o Join(Chunks(Replace(v, <<DQ>>, <<BS, DQ>>)), <<DQ, SP, DQ>>) \o <<DQ>>

\* "<a> <b> ..." of a sequence of texts
SpaceJoined(fields) == Join(fields, <<SP>>)

\* value.rdata_text of the values record.rrs lists (rr_values for TXT)
rdata_text(type, v) ==
    CASE type \in TargetTypes -> v.value
      [] type = "TXT" -> chunked_value(v.value)
      [] type = "MX" -> SpaceJoined(<<<<IntStr(v.preference)>>, v.exchange>>)
      [] type = "SRV" ->
            SpaceJoined(<<<<IntStr(v.priority)>>, <<IntStr(v.weight)>>,
                          <<IntStr(v.port)>>, v.target>>)
      [] type = "CAA" -> SpaceJoined(<<<<IntStr(v.flags)>>, v.tag, v.value>>)
      [] type \in ServiceTypes ->
            SpaceJoined(<<<<IntStr(v.svcpriority)>>, v.targetname>> \o v.svcparams)

\* record.rrs: (fqdn, ttl, _type, rdata texts)
rrs(record) ==
    [ttl |-> record.ttl, type |-> record.type,
     values |-> [i \in 1..Len(record.values) |->
                    rdata_text(record.type, record.values[i])]]

\* TxtValue.process on one rdata text: strip the quotes, join the chunks
TxtProcess(v) ==
    LET w == IF v # <<>> /\ v[1] = DQ THEN SubSeq(v, 2, Len(v) - 1) ELSE v
    IN  Replace(w, <<DQ, SP, DQ>>, <<>>)

unquote(s) ==
    IF s # <<>> /\ s[1] = DQ THEN SubSeq(s, 2, Len(s) - 1) ELSE s

IntField(t) == Len(t) = 1 /\ IsNumeral(t[1])

\* str.split(' ', 2): at most three fields
Split2(s) ==
    LET p == Split(s, SP)
    IN  IF Len(p) <= 3 THEN p
        ELSE <<p[1], p[2], Join(SubSeq(p, 3, Len(p)), <<SP>>)>>

\* <Type>Value.parse_rdata_text followed by the value's validation:
\* <<value>>, or <<>> when the text is not of the type's grammar
parse_rdata_text(type, text) ==
    CASE type \in TargetTypes -> <<[value |-> text]>>
      [] type = "TXT" -> <<[value |-> Replace(text, <<SEMI>>, <<BS, SEMI>>)]>>
      [] type = "MX" ->
            LET p == Split(text, SP)
            IN  IF Len(p) = 2 /\ IntField(p[1])
                THEN <<[preference |-> StrInt(p[1][1]), exchange |-> p[2]]>>
                ELSE <<>>
      [] type = "SRV" ->
            LET p == Split(text, SP)
            IN  IF Len(p) = 4 /\ IntField(p[1]) /\ IntField(p[2]) /\ IntField(p[3])
                THEN <<[priority |-> StrInt(p[1][1]), weight |-> StrInt(p[2][1]),
                        port |-> StrInt(p[3][1]), target |-> p[4]]>>
                ELSE <<>>
      [] type = "CAA" ->
            LET p == Split2(text)
            IN  IF Len(p) = 3 /\ IntField(p[1])
                THEN <<[flags |-> StrInt(p[1][1]), tag |-> unquote(p[2]),
                        value |-> unquote(p[3])]>>
                ELSE <<>>
      [] type \in ServiceTypes ->
            LET p == Split(text, SP)
            IN  IF Len(p) >= 2 /\ IntField(p[1])
                THEN <<[svcpriority |-> StrInt(p[1][1]), targetname |-> p[2],
                        svcparams |-> SubSeq(p, 3, Len(p))]>>
                ELSE <<>>
      [] OTHER -> <<>>

----------------------------------------------------------------------------
(* Record-set encoder: the row flattening of _apply.                       *)

\* the record name sent as it is
WireName_Unchanged(name) == name

\* the wire name of a record
WireName(name) == IF name = "" THEN "@" ELSE name

\* EncodeRData without the reverting of escaped semicolons
EncodeRData_KeepEscapes(type, value) ==
    IF type = "CAA"
    THEN LET v == parse_rdata_text("CAA", value)[1]
         IN  <<IntStr(v.flags), SP>> \o v.tag \o <<SP, DQ>> \o v.value \o <<DQ>>
    ELSE value

\* EncodeRData with CAA left to the generic rdata text
EncodeRData_GenericCaa(type, value) ==
    IF type \in {"TXT", "HTTPS", "SVCB"}
    THEN Replace(value, <<BS, SEMI>>, <<SEMI>>) ELSE value

\* one rdata text of record.rrs to the RData the row carries
EncodeRData(type, value) ==
    LET v1 == IF type \in {"TXT", "HTTPS", "SVCB"}
              THEN Replace(value, <<BS, SEMI>>, <<SEMI>>) ELSE value
    IN  IF type = "CAA"
        THEN LET v == parse_rdata_text("CAA", v1)[1]
             IN  <<IntStr(v.flags), SP>> \o v.tag \o <<SP, DQ>> \o v.value \o <<DQ>>
        ELSE v1

\* the row with the TTL left out whenever ttl is falsy or the default
Row_OmitZero(record_name, ttl, type, value) ==
    LET rr == [Name |-> record_name, Type |-> type, RData |-> EncodeRData(type, value)]
    IN  IF ttl # DEFAULT_TTL /\ ttl # 0
        THEN [Name |-> rr.Name, Type |-> rr.Type, RData |-> rr.RData, TTL |-> ttl]
        ELSE rr

\* the row of one value: TTL only when it is not the default
Row(record_name, ttl, type, value) ==
    LET rr == [Name |-> record_name, Type |-> type, RData |-> EncodeRData(type, value)]
    IN  IF ttl # DEFAULT_TTL
        THEN [Name |-> rr.Name, Type |-> rr.Type, RData |-> rr.RData, TTL |-> ttl]
        ELSE rr

\* the rows of one record, one per value
RecordRows(record) ==
    LET r == rrs(record)
        values == IF r.type = "TXT"
                  THEN [i \in 1..Len(r.values) |-> TxtProcess(r.values[i])]
                  ELSE r.values
    IN  [i \in 1..Len(values) |-> Row(WireName(record.name), r.ttl, r.type, values[i])]

\* the rows of the records of desired.records, in iteration order
RECURSIVE Flatten(_)
Flatten(records) ==
    IF records = <<>> THEN <<>>
    ELSE RecordRows(Head(records)) \o Flatten(Tail(records))

\* the orders in which a set of records may be iterated
Orderings(S) ==
    {q \in [1..Cardinality(S) -> S] : \A i, j \in 1..Cardinality(S) : i # j => q[i] # q[j]}

----------------------------------------------------------------------------
(* Record-set decoder: the grouping and parsing of populate.               *)

RowTTL(rr) == IF "TTL" \in DOMAIN rr THEN rr.TTL ELSE DEFAULT_TTL

IndexOfKey(groups, key) ==
    IF \E i \in 1..Len(groups) : groups[i].key = key
    THEN CHOOSE i \in 1..Len(groups) : groups[i].key = key
    ELSE 0

\* the grouping without the test of the row's type
RECURSIVE GroupRows_NoFilter(_, _)
GroupRows_NoFilter(rows, groups) ==
    IF rows = <<>> THEN groups
    ELSE LET rr == Head(rows)
             key == <<rr.Name, rr.Type>>
             i == IndexOfKey(groups, key)
         IN  IF i = 0
             THEN GroupRows_NoFilter(Tail(rows),
                     Append(groups,
                            [key |-> key,
                             name |-> IF rr.Name = "@" THEN "" ELSE rr.Name,
                             type |-> rr.Type,
                             rdatas |-> <<rr.RData>>,
                             ttl |-> RowTTL(rr)]))
             ELSE GroupRows_NoFilter(Tail(rows),
                     [groups EXCEPT ![i].rdatas = Append(@, rr.RData)])

\* the grouping with every row of an entry setting the entry's ttl
RECURSIVE GroupRows_LastTTL(_, _)
GroupRows_LastTTL(rows, groups) ==
    IF rows = <<>> THEN groups
    ELSE LET rr == Head(rows)
             key == <<rr.Name, rr.Type>>
             i == IndexOfKey(groups, key)
         IN  IF rr.Type \notin SUPPORTS THEN GroupRows_LastTTL(Tail(rows), groups)
             ELSE IF i = 0
             THEN GroupRows_LastTTL(Tail(rows),
                     Append(groups,
                            [key |-> key,
                             name |-> IF rr.Name = "@" THEN "" ELSE rr.Name,
                             type |-> rr.Type,
                             rdatas |-> <<rr.RData>>,
                             ttl |-> RowTTL(rr)]))
             ELSE GroupRows_LastTTL(Tail(rows),
                     [groups EXCEPT ![i].rdatas = Append(@, rr.RData),
                                    ![i].ttl = RowTTL(rr)])

\* rrset_map after the rows, as the sequence of its entries in insertion order
RECURSIVE GroupRows(_, _)
GroupRows(rows, groups) ==
    IF rows = <<>> THEN groups
    ELSE LET rr == Head(rows)
             key == <<rr.Name, rr.Type>>
             i == IndexOfKey(groups, key)
         IN  IF rr.Type \notin SUPPORTS THEN GroupRows(Tail(rows), groups)
             ELSE IF i = 0
             THEN GroupRows(Tail(rows),
                     Append(groups,
                            [key |-> key,
                             name |-> IF rr.Name = "@" THEN "" ELSE rr.Name,
                             type |-> rr.Type,
                             rdatas |-> <<rr.RData>>,
                             ttl |-> RowTTL(rr)]))
             ELSE GroupRows(Tail(rows),
                     [groups EXCEPT ![i].rdatas = Append(@, rr.RData)])

\* the types whose record class holds one value (ValueMixin)
SingleValueTypes == {"ALIAS", "CNAME"}

\* the names of the model that are of the form _service._protocol
SrvNames == {"_s._tcp", "_t._tcp"}

\* the name rules of the record classes' validate: no CNAME at the apex,
\* ALIAS only at the apex, SRV only under _service._protocol
ValidName(type, name) ==
    /\ type = "CNAME" => name # ""
    /\ type = "ALIAS" => name = ""
    /\ type = "SRV" => name \in SrvNames

\* cls.parse_rdata_texts and Record.new accept the entry: every rdata is of
\* the type's grammar, a single-value type has one value, and the name is
\* one the type allows unless the call is lenient
GroupValid(g, lenient) ==
    /\ \A i \in 1..Len(g.rdatas) : parse_rdata_text(g.type, g.rdatas[i]) # <<>>
    /\ g.type \in SingleValueTypes => Len(g.rdatas) = 1
    /\ lenient \/ ValidName(g.type, g.name)

\* the record Record.new builds from one rrset_map entry
GroupRecord(g) ==
    [name |-> g.name, type |-> g.type, ttl |-> g.ttl,
     values |-> [i \in 1..Len(g.rdatas) |-> parse_rdata_text(g.type, g.rdatas[i])[1]]]

\* the leading entries that Record.new accepts
RECURSIVE ValidPrefix(_, _)
ValidPrefix(groups, lenient) ==
    IF groups = <<>> \/ ~GroupValid(Head(groups), lenient) THEN <<>>
    ELSE <<Head(groups)>> \o ValidPrefix(Tail(groups), lenient)

\* the decoder on a row list: the records Record.new built, in order, and
\* whether every entry gave one (ok) or one was refused
Decode(rows, lenient) ==
    LET groups == GroupRows(rows, <<>>)
        good == ValidPrefix(groups, lenient)
    IN  [ok |-> Len(good) = Len(groups),
         records |-> [i \in 1..Len(good) |-> GroupRecord(good[i])]]

Range(q) == {q[i] : i \in 1..Len(q)}

\* zone.add_record: a second record of a (name, type) is refused, and so is,
\* unless lenient, a CNAME at a node that holds another record
add_record(records, record, lenient) ==
    IF \E r \in records : r.name = record.name /\ r.type = record.type
    THEN [error |-> "DuplicateRecordException", records |-> records]
    ELSE IF ~lenient /\ \E r \in records :
                /\ r.name = record.name
                /\ record.type = "CNAME" \/ r.type = "CNAME"
    THEN [error |-> "InvalidNodeException", records |-> records]
    ELSE [error |-> "ok", records |-> records \cup {record}]

\* zone.add_record of the decoded records in turn, up to the first refusal
RECURSIVE AddAll(_, _, _)
AddAll(records, new, lenient) ==
    IF new = <<>> THEN [error |-> "ok", records |-> records]
    ELSE LET a == add_record(records, Head(new), lenient)
         IN  IF a.error # "ok" THEN a ELSE AddAll(a.records, Tail(new), lenient)

----------------------------------------------------------------------------
(* The codec specification: a desired record set is drawn, the encoder     *)
(* flattens it, the decoder reads the rows back.                           *)
T(a) == <<a>>
Val1(type) ==
    CASE type \in TargetTypes -> [value |-> T("t1.")]
      [] type = "TXT" -> [value |-> <<"v=1", BS, SEMI, SP, "a", BS, SEMI, "b">>]
      [] type = "MX" -> [preference |-> 1, exchange |-> T("mx1.")]
      [] type = "SRV" -> [priority |-> 1, weight |-> 2, port |-> 3, target |-> T("s1.")]
      [] type = "CAA" -> [flags |-> 0, tag |-> T("issue"), value |-> T("ca.example.com")]
      [] type \in ServiceTypes ->
            [svcpriority |-> 1, targetname |-> T("."), svcparams |-> <<T("alpn=h2")>>]
Val2(type) ==
    CASE type \in TargetTypes -> [value |-> T("t2.")]
      [] type = "TXT" -> [value |-> <<"x", SP, "y">>]
      [] type = "MX" -> [preference |-> 2, exchange |-> T("mx2.")]
      [] type = "SRV" -> [priority |-> 0, weight |-> 0, port |-> 1, target |-> T("s2.")]
      [] type = "CAA" ->
            [flags |-> 1, tag |-> T("iodef"), value |-> <<"ca", SEMI, SP, "acct=1">>]
      [] type \in ServiceTypes ->
            [svcpriority |-> 0, targetname |-> T("pool."), svcparams |-> <<>>]

\* the names a record of a type is given: the apex and a name under it where
\* the type allows them
FirstName(t) == CASE t = "CNAME" -> "cname" [] t = "SRV" -> "_s._tcp" [] OTHER -> ""
SecondName(t) == CASE t = "ALIAS" -> "" [] t = "SRV" -> "_t._tcp" [] OTHER -> "www"

\* the records a desired zone is drawn from
RecordUniverse ==
    {[name |-> FirstName(t), type |-> t, ttl |-> DEFAULT_TTL,
      values |-> IF t \in SingleValueTypes THEN <<Val1(t)>> ELSE <<Val1(t), Val2(t)>>]
        : t \in SUPPORTS}
    \cup {[name |-> SecondName(t), type |-> t, ttl |-> 300, values |-> <<Val2(t)>>]
        : t \in SUPPORTS}
    \cup {[name |-> "www", type |-> t, ttl |-> 0, values |-> <<Val1(t)>>]
        : t \in {"A", "MX", "TXT"}}

\* what Zone.add_record keeps true of a zone: one record per (name, type),
\* and no other record at the node of a CNAME
OnePerKey(S) ==
    \A r1, r2 \in S :
        /\ (r1.name = r2.name /\ r1.type = r2.type) => r1 = r2
        /\ (r1.name = r2.name /\ r1.type = "CNAME") => r1 = r2

RECURSIVE SetsUpTo(_, _)
SetsUpTo(U, n) ==
    IF n = 0 THEN {{}}
    ELSE LET smaller == SetsUpTo(U, n - 1)
         IN  smaller \cup {S \cup {r} : S \in smaller, r \in U}

DesiredSets == {S \in SetsUpTo(RecordUniverse, MaxRecords) : OnePerKey(S)}

----------------------------------------------------------------------------
(* The remote API, as the directory sees it.  An item is                   *)
(*   [ID, ServiceClass, Zone, RRs]: Status.Zone and                        *)
(* Settings.DNS.ResourceRecordSets of a CommonServiceItem.                 *)
DNS_CLASS == "cloud/dns"

EmptyMap == [k \in {} |-> {}]

Put(m, k, v) == [x \in DOMAIN m \cup {k} |-> IF x = k THEN v ELSE m[x]]

GetReq(ok) == [method |-> "GET", path |-> "/commonserviceitem", ok |-> ok]
PostReq(body, ok) == [method |-> "POST", path |-> "/commonserviceitem", body |-> body, ok |-> ok]
PutReq(id, rows, ok) == [method |-> "PUT", id |-> id, body |-> rows, ok |-> ok]

\* POST /commonserviceitem: the resource the API creates and echoes
Created(items, body) ==
    [ID |-> Len(items) + 1, ServiceClass |-> DNS_CLASS, Zone |-> body.Zone,
     RRs |-> body.RRs]

\* PUT /commonserviceitem/{id}: the item list with the record list replaced
Replaced(items, id, rows) ==
    [i \in 1..Len(items) |->
        IF items[i].ID = id THEN [items[i] EXCEPT !.RRs = rows] ELSE items[i]]

ItemById(items, id) == items[CHOOSE i \in 1..Len(items) : items[i].ID = id]

(* The directory, SakuraCloudAPI.  Its methods are operators on a record d *)
(* of the state they read and write:                                       *)
(*   remote, isNone, map, http, outcome, fetched, created,                 *)
(* and of failure, the way a request of the call fails when it does.       *)
(* outcome is "ok" or the exception the method raised.                     *)
Raised(d) == d.outcome # "ok"

\* the ways a request fails: a transport fault, a non-2xx response with the
\* API's error object as its body, a non-2xx response with a body that is
\* not JSON (an intermediary's error page)
Failures == {"RequestException", "HTTPError", "HTTPErrorNotJson"}

\* _request: the exception a failed request ends in.  e.response.json() in
\* the HTTPError handler raises on a body that is not JSON
_request(failure) ==
    IF failure = "HTTPErrorNotJson" THEN "JSONDecodeError" ELSE "SakuraCloudException"

\* the loop without the service-class test
RECURSIVE BuildMap_NoFilter(_, _)
BuildMap_NoFilter(items, m) ==
    IF items = <<>> THEN m
    ELSE BuildMap_NoFilter(Tail(items),
                           Put(m, _add_trailing_dot(Head(items).Zone), Head(items)))

\* the loop that builds the map from the fetched items
RECURSIVE BuildMap(_, _)
BuildMap(items, m) ==
    IF items = <<>> THEN m
    ELSE LET item == Head(items)
         IN  IF item.ServiceClass # DNS_CLASS THEN BuildMap(Tail(items), m)
             ELSE BuildMap(Tail(items), Put(m, _add_trailing_dot(item.Zone), item))

\* the accessor assigning the map only after the fetch returned
_get_common_service_item_map_AssignAfter(d, okGet) ==
    IF ~d.isNone THEN d
    ELSE IF ~okGet
    THEN [d EXCEPT !.http = Append(@, GetReq(FALSE)),
                   !.outcome = _request(d.failure)]
    ELSE [d EXCEPT !.isNone = FALSE, !.map = BuildMap(d.remote, EmptyMap),
                   !.http = Append(@, GetReq(TRUE)),
                   !.fetched = d.remote]

_get_common_service_item_map(d, okGet) ==
    IF ~d.isNone THEN d
    ELSE IF ~okGet
    THEN [d EXCEPT !.isNone = FALSE, !.map = EmptyMap,
                   !.http = Append(@, GetReq(FALSE)),
                   !.outcome = _request(d.failure)]
    ELSE [d EXCEPT !.isNone = FALSE, !.map = BuildMap(d.remote, EmptyMap),
                   !.http = Append(@, GetReq(TRUE)),
                   !.fetched = d.remote]

\* dict.get: <<item>> or <<>> for None
Lookup(m, zone_name) == IF zone_name \in DOMAIN m THEN <<m[zone_name]>> ELSE <<>>

\* create_zone not storing the created handle in the cache
create_zone_NoStore(d, zone_name, okPost, okGet) ==
    LET name == _remove_trailing_dot(zone_name)
        body == [Name |-> name, Zone |-> name, RRs |-> <<>>, Class |-> "dns"]
        item == Created(d.remote, body)
    IN  IF ~okPost
        THEN [d EXCEPT !.http = Append(@, PostReq(body, FALSE)),
                       !.outcome = _request(d.failure)]
        ELSE LET d1 == [d EXCEPT !.http = Append(@, PostReq(body, TRUE)),
                                 !.remote = Append(@, item)]
                 d2 == _get_common_service_item_map(d1, okGet)
             IN  IF Raised(d2) THEN d2
                 ELSE [d2 EXCEPT !.created = Put(@, zone_name, item)]

\* create_zone starting the cache anew with the created handle
create_zone_DropOthers(d, zone_name, okPost, okGet) ==
    LET name == _remove_trailing_dot(zone_name)
        body == [Name |-> name, Zone |-> name, RRs |-> <<>>, Class |-> "dns"]
        item == Created(d.remote, body)
    IN  IF ~okPost
        THEN [d EXCEPT !.http = Append(@, PostReq(body, FALSE)),
                       !.outcome = _request(d.failure)]
        ELSE LET d1 == [d EXCEPT !.http = Append(@, PostReq(body, TRUE)),
                                 !.remote = Append(@, item)]
                 d2 == _get_common_service_item_map(d1, okGet)
             IN  IF Raised(d2) THEN d2
                 ELSE [d2 EXCEPT !.map = Put(EmptyMap, zone_name, item),
                                 !.created = Put(@, zone_name, item)]

\* create_zone storing the handle under the wire name
create_zone_WireKey(d, zone_name, okPost, okGet) ==
    LET name == _remove_trailing_dot(zone_name)
        body == [Name |-> name, Zone |-> name, RRs |-> <<>>, Class |-> "dns"]
        item == Created(d.remote, body)
    IN  IF ~okPost
        THEN [d EXCEPT !.http = Append(@, PostReq(body, FALSE)),
                       !.outcome = _request(d.failure)]
        ELSE LET d1 == [d EXCEPT !.http = Append(@, PostReq(body, TRUE)),
                                 !.remote = Append(@, item)]
                 d2 == _get_common_service_item_map(d1, okGet)
             IN  IF Raised(d2) THEN d2
                 ELSE [d2 EXCEPT !.map = Put(@, name, item),
                                 !.created = Put(@, zone_name, item)]

create_zone(d, zone_name, okPost, okGet) ==
    LET name == _remove_trailing_dot(zone_name)
        body == [Name |-> name, Zone |-> name, RRs |-> <<>>, Class |-> "dns"]
        item == Created(d.remote, body)
    IN  IF ~okPost
        THEN [d EXCEPT !.http = Append(@, PostReq(body, FALSE)),
                       !.outcome = _request(d.failure)]
        ELSE LET d1 == [d EXCEPT !.http = Append(@, PostReq(body, TRUE)),
                                 !.remote = Append(@, item)]
                 d2 == _get_common_service_item_map(d1, okGet)
             IN  IF Raised(d2) THEN d2
                 ELSE [d2 EXCEPT !.map = Put(@, zone_name, item),
                                 !.created = Put(@, zone_name, item)]

\* update_zone dropping every other entry of the cache
update_zone_DropOthers(d, zone_name, rows, okPut) ==
    IF d.isNone THEN [d EXCEPT !.outcome = "TypeError"]
    ELSE IF zone_name \notin DOMAIN d.map THEN [d EXCEPT !.outcome = "KeyError"]
    ELSE LET id == d.map[zone_name].ID
         IN  IF ~okPut
             THEN [d EXCEPT !.http = Append(@, PutReq(id, rows, FALSE)),
                            !.outcome = _request(d.failure)]
             ELSE LET items == Replaced(d.remote, id, rows)
                      item == ItemById(items, id)
                  IN  [d EXCEPT !.http = Append(@, PutReq(id, rows, TRUE)),
                                !.remote = items,
                                !.map = Put(EmptyMap, zone_name, item)]

\* update_zone leaving the cached handle as it was
update_zone_NoRefresh(d, zone_name, rows, okPut) ==
    IF d.isNone THEN [d EXCEPT !.outcome = "TypeError"]
    ELSE IF zone_name \notin DOMAIN d.map THEN [d EXCEPT !.outcome = "KeyError"]
    ELSE LET id == d.map[zone_name].ID
         IN  IF ~okPut
             THEN [d EXCEPT !.http = Append(@, PutReq(id, rows, FALSE)),
                            !.outcome = _request(d.failure)]
             ELSE [d EXCEPT !.http = Append(@, PutReq(id, rows, TRUE)),
                            !.remote = Replaced(d.remote, id, rows)]

update_zone(d, zone_name, rows, okPut) ==
    IF d.isNone THEN [d EXCEPT !.outcome = "TypeError"]
    ELSE IF zone_name \notin DOMAIN d.map THEN [d EXCEPT !.outcome = "KeyError"]
    ELSE LET id == d.map[zone_name].ID
         IN  IF ~okPut
             THEN [d EXCEPT !.http = Append(@, PutReq(id, rows, FALSE)),
                            !.outcome = _request(d.failure)]
             ELSE LET items == Replaced(d.remote, id, rows)
                      item == ItemById(items, id)
                  IN  [d EXCEPT !.http = Append(@, PutReq(id, rows, TRUE)),
                                !.remote = items,
                                !.map = Put(@, zone_name, item)]

get_zone(d, zone_name, okGet) ==
    LET d1 == _get_common_service_item_map(d, okGet)
    IN  [dir |-> d1, ret |-> IF Raised(d1) THEN <<>> ELSE Lookup(d1.map, zone_name)]

get_zone_names(d, okGet) ==
    LET d1 == _get_common_service_item_map(d, okGet)
    IN  [dir |-> d1, ret |-> IF Raised(d1) THEN {} ELSE DOMAIN d1.map]

----------------------------------------------------------------------------
(* The provider, SakuraCloudProvider.                                      *)

\* populate reporting a zone it did not find as existing
populate_ExistsAlways(d, zone_name, before, lenient, okGet) ==
    LET g == get_zone(d, zone_name, okGet)
        dec == Decode(g.ret[1].RRs, lenient)
        added == AddAll(before, dec.records, lenient)
    IN  IF Raised(g.dir) THEN [dir |-> g.dir, ret |-> FALSE, records |-> before]
        ELSE IF g.ret = <<>> THEN [dir |-> g.dir, ret |-> TRUE, records |-> before]
        ELSE IF added.error # "ok"
        THEN [dir |-> [g.dir EXCEPT !.outcome = added.error], ret |-> FALSE,
              records |-> added.records]
        ELSE IF ~dec.ok
        THEN [dir |-> [g.dir EXCEPT !.outcome = "ValidationError"], ret |-> FALSE,
              records |-> added.records]
        ELSE [dir |-> g.dir, ret |-> TRUE, records |-> added.records]

\* populate: the lookup, the decoder, zone.add_record of every record
populate(d, zone_name, before, lenient, okGet) ==
    LET g == get_zone(d, zone_name, okGet)
        dec == Decode(g.ret[1].RRs, lenient)
        added == AddAll(before, dec.records, lenient)
    IN  IF Raised(g.dir) THEN [dir |-> g.dir, ret |-> FALSE, records |-> before]
        ELSE IF g.ret = <<>> THEN [dir |-> g.dir, ret |-> FALSE, records |-> before]
        ELSE IF added.error # "ok"
        THEN [dir |-> [g.dir EXCEPT !.outcome = added.error], ret |-> FALSE,
              records |-> added.records]
        ELSE IF ~dec.ok
        THEN [dir |-> [g.dir EXCEPT !.outcome = "ValidationError"], ret |-> FALSE,
              records |-> added.records]
        ELSE [dir |-> g.dir, ret |-> TRUE, records |-> added.records]

\* list_zones: the sorted zone names; only membership is read
list_zones(d, okGet) == get_zone_names(d, okGet)

\* the test that decides on create_zone
ZoneMissing_Inverted(zone_name, names) == zone_name \in names

ZoneMissing(zone_name, names) == zone_name \notin names

\* the records _apply flattens when the changes are taken for the zone
ApplyRecords_FromChanges(plan) ==
    {c.new : c \in {x \in plan.changes : x.kind \in {"Create", "Update"}}}

\* the records _apply flattens: all of plan.desired
ApplyRecords(plan) == plan.desired.records

\* _apply: create the zone when list_zones lacks it, flatten plan.desired,
\* update the zone.  order is the iteration order of desired.records.
_apply(d, plan, order, okGet, okPost, okPut) ==
    LET zone_name == plan.desired.name
        l == list_zones(d, okGet)
        absent == ZoneMissing(zone_name, l.ret)
        d1 == IF absent THEN create_zone(l.dir, zone_name, okPost, okGet) ELSE l.dir
        c1 == IF absent THEN <<[call |-> "create_zone", zone |-> zone_name]>> ELSE <<>>
        rows == Flatten(order)
        d2 == update_zone(d1, zone_name, rows, okPut)
    IN  IF Raised(l.dir) THEN [dir |-> l.dir, calls |-> <<>>]
        ELSE IF Raised(d1) THEN [dir |-> d1, calls |-> c1]
        ELSE [dir |-> d2,
              calls |-> Append(c1, [call |-> "update_zone", zone |-> zone_name,
                                    rows |-> rows])]

----------------------------------------------------------------------------
(* The session: one directory, one provider, calls in any order.           *)
ZA == <<"a", ".">>
ZB == <<"b", ".">>
ZoneNames == {ZA, ZB, <<"a">>}      \* names given to the directory's methods
ZoneModelNames == {ZA, ZB}          \* names of octodns zones: fully qualified

RA == [name |-> "", type |-> "A", ttl |-> DEFAULT_TTL,
       values |-> <<Val1("A"), Val2("A")>>]
RM == [name |-> "www", type |-> "MX", ttl |-> 300, values |-> <<Val1("MX")>>]
RT == [name |-> "old", type |-> "TXT", ttl |-> 300, values |-> <<Val2("TXT")>>]
RMold == [name |-> "www", type |-> "MX", ttl |-> 0, values |-> <<Val2("MX")>>]

\* the plans the diff engine may hand to _apply: the desired zone and the
\* changes that led to it
Plans ==
    {[desired |-> [name |-> z, records |-> S], changes |-> C] :
        z \in ZoneModelNames, S \in {{RM}, {RA, RM}},
        C \in {{[kind |-> "Create", new |-> RM]},
               {[kind |-> "Update", existing |-> RMold, new |-> RM],
                [kind |-> "Delete", existing |-> RT]}}}

UnsupportedRow == [Name |-> "@", Type |-> "SOA", RData |-> T("soa")]
InitRows == Append(RecordRows(RA), UnsupportedRow)
MalformedRow == [Name |-> "www", Type |-> "MX", RData |-> T("mx1."), TTL |-> 300]
RowLists == {<<MalformedRow>>, InitRows}

Item(id, class, zone, rows) ==
    [ID |-> id, ServiceClass |-> class, Zone |-> zone, RRs |-> rows]

\* the accounts a session may start with
InitRemotes ==
    {<<>>,
     <<Item(1, DNS_CLASS, T("a"), InitRows)>>,
     <<Item(1, DNS_CLASS, T("a"), InitRows), Item(2, "cloud/foo", T("a"), <<>>)>>,
     <<Item(1, "cloud/foo", T("b"), <<>>), Item(2, DNS_CLASS, T("a"), <<>>)>>}

NoOp == [name |-> "none"]

\* the request of a call that meets a transport fault or a non-2xx response:
\* a call stops at its first failed request, so one choice covers a call
Faults == {"none", "GET", "POST", "PUT"}

DirInit ==
    /\ remote \in InitRemotes
    /\ mapIsNone = TRUE
    /\ common_service_item_map = EmptyMap
    /\ op = NoOp
    /\ http = <<>>
    /\ calls = <<>>
    /\ nGet = 0
    /\ fetched = <<>>
    /\ created = EmptyMap

CodecIdle ==
    /\ desired = {}
    /\ rrsets = <<>>
    /\ decoded = [ok |-> TRUE, records |-> <<>>]
    /\ phase = "idle"

Init == DirInit /\ CodecIdle

\* the directory state a call starts from
Dir ==
    [remote |-> remote, isNone |-> mapIsNone, map |-> common_service_item_map,
     http |-> <<>>, outcome |-> "ok", fetched |-> fetched, created |-> created,
     failure |-> "HTTPError"]

\* the same, for a call whose failing request fails in the given way
DirFailing(failure) == [Dir EXCEPT !.failure = failure]

Gets(reqs) == Cardinality({i \in 1..Len(reqs) : reqs[i].method = "GET"})

\* the directory state a call leaves
Commit(d) ==
    /\ remote' = d.remote
    /\ mapIsNone' = d.isNone
    /\ common_service_item_map' = d.map
    /\ http' = d.http
    /\ nGet' = nGet + Gets(d.http)
    /\ fetched' = d.fetched
    /\ created' = d.created

GetZone ==
    /\ op = NoOp
    /\ \E zone_name \in ZoneNames, fault \in Faults \ {"POST", "PUT"},
          failure \in Failures :
        LET r == get_zone(DirFailing(failure), zone_name, fault # "GET")
        IN  /\ Commit(r.dir)
            /\ op' = [name |-> "get_zone", zone |-> zone_name,
                      outcome |-> r.dir.outcome, ret |-> r.ret]
            /\ calls' = <<>>
            /\ UNCHANGED codecVars

GetZoneNames ==
    /\ op = NoOp
    /\ \E fault \in Faults \ {"POST", "PUT"},
          failure \in Failures :
        LET r == get_zone_names(DirFailing(failure), fault # "GET")
        IN  /\ Commit(r.dir)
            /\ op' = [name |-> "get_zone_names", outcome |-> r.dir.outcome,
                      ret |-> r.ret]
            /\ calls' = <<>>
            /\ UNCHANGED codecVars

CreateZone ==
    /\ op = NoOp
    /\ \E zone_name \in ZoneNames, fault \in Faults \ {"PUT"},
          failure \in Failures :
        LET d == create_zone(DirFailing(failure), zone_name, fault # "POST", fault # "GET")
        IN  /\ Len(d.remote) <= MaxItems
            /\ Commit(d)
            /\ op' = [name |-> "create_zone", zone |-> zone_name,
                      outcome |-> d.outcome]
            /\ calls' = <<>>
            /\ UNCHANGED codecVars

UpdateZone ==
    /\ op = NoOp
    /\ \E zone_name \in ZoneNames, rows \in RowLists, fault \in {"none", "PUT"},
          failure \in Failures :
        LET d == update_zone(DirFailing(failure), zone_name, rows, fault # "PUT")
        IN  /\ Commit(d)
            /\ op' = [name |-> "update_zone", zone |-> zone_name, rows |-> rows,
                      outcome |-> d.outcome]
            /\ calls' = <<>>
            /\ UNCHANGED codecVars

\* the record collections a caller's zone may hold before populate
Befores == {{}, {RT}}

Populate ==
    /\ op = NoOp
    /\ \E zone_name \in ZoneModelNames, before \in Befores, lenient \in BOOLEAN,
          fault \in {"none", "GET"}, failure \in Failures :
        LET r == populate(DirFailing(failure), zone_name, before, lenient, fault # "GET")
        IN  /\ Commit(r.dir)
            /\ op' = [name |-> "populate", zone |-> zone_name, lenient |-> lenient,
                      outcome |-> r.dir.outcome, ret |-> r.ret,
                      before |-> before, records |-> r.records]
            /\ calls' = <<>>
            /\ UNCHANGED codecVars

Apply ==
    /\ op = NoOp
    /\ \E plan \in Plans, fault \in Faults, failure \in Failures :
        \E order \in Orderings(ApplyRecords(plan)) :
            LET r == _apply(DirFailing(failure), plan, order, fault # "GET", fault # "POST", fault # "PUT")
            IN  /\ Len(r.dir.remote) <= MaxItems
                /\ Commit(r.dir)
                /\ op' = [name |-> "_apply", zone |-> plan.desired.name,
                          outcome |-> r.dir.outcome, plan |-> plan]
                /\ calls' = r.calls
                /\ UNCHANGED codecVars

\* the call's result is handed to the caller; the next call may begin
Return ==
    /\ op # NoOp
    /\ op' = NoOp
    /\ http' = <<>>
    /\ calls' = <<>>
    /\ UNCHANGED <<remote, mapIsNone, common_service_item_map, nGet, fetched, created,
                   codecVars>>

Next ==
    GetZone \/ GetZoneNames \/ CreateZone \/ UpdateZone \/ Populate \/ Apply \/ Return

Spec == Init /\ [][Next]_vars

\* a sync session: the manager calls populate and _apply, never the
\* directory itself
SyncNext == Populate \/ Apply \/ Return

SyncSpec == Init /\ [][SyncNext]_vars

----------------------------------------------------------------------------
(* The codec specification.                                                *)
CodecInit ==
    /\ remote = <<>>
    /\ mapIsNone = TRUE
    /\ common_service_item_map = EmptyMap
    /\ op = NoOp
    /\ http = <<>>
    /\ calls = <<>>
    /\ nGet = 0
    /\ fetched = <<>>
    /\ created = EmptyMap
    /\ desired \in DesiredSets
    /\ rrsets = <<>>
    /\ decoded = [ok |-> TRUE, records |-> <<>>]
    /\ phase = "new"

Encode ==
    /\ phase = "new"
    /\ \E order \in Orderings(desired) : rrsets' = Flatten(order)
    /\ phase' = "encoded"
    /\ UNCHANGED <<desired, decoded, dirVars>>

DecodeRows ==
    /\ phase = "encoded"
    /\ LET dec == Decode(rrsets, FALSE)
           added == AddAll({}, dec.records, FALSE)
       IN  decoded' = [ok |-> dec.ok /\ added.error = "ok", records |-> dec.records]
    /\ phase' = "decoded"
    /\ UNCHANGED <<desired, rrsets, dirVars>>

CodecNext == Encode \/ DecodeRows

CodecSpec == CodecInit /\ [][CodecNext]_vars

----------------------------------------------------------------------------
(* The populate specification: the account holds one zone with any row     *)
(* list, and populate reads it.                                            *)
RawRowUniverse ==
    {[Name |-> "@", Type |-> "A", RData |-> T("t1.")],
     [Name |-> "@", Type |-> "A", RData |-> T("t2."), TTL |-> 300],
     [Name |-> "www", Type |-> "A", RData |-> T("t1."), TTL |-> 300],
     [Name |-> "www", Type |-> "MX", RData |-> <<"1", SP, "mx1.">>, TTL |-> 0],
     MalformedRow,
     [Name |-> "www", Type |-> "CNAME", RData |-> T("t1.")],
     UnsupportedRow,
     [Name |-> "", Type |-> "A", RData |-> T("t2.")],
     [Name |-> "@", Type |-> "TXT", RData |-> <<"v=1", SEMI, "a">>]}

RawRowLists == UNION {[1..n -> RawRowUniverse] : n \in 0..MaxRows}

PopulateInit ==
    /\ remote \in {<<Item(1, DNS_CLASS, T("a"), rows)>> : rows \in RawRowLists}
    /\ mapIsNone = TRUE
    /\ common_service_item_map = EmptyMap
    /\ op = NoOp
    /\ http = <<>>
    /\ calls = <<>>
    /\ nGet = 0
    /\ fetched = <<>>
    /\ created = EmptyMap
    /\ CodecIdle

PopulateNext == Populate \/ Return

PopulateSpec == PopulateInit /\ [][PopulateNext]_vars

----------------------------------------------------------------------------
(* Claims.                                                                 *)

\* the multiset of the elements of a sequence
BagOf(q) == [v \in Range(q) |-> Cardinality({i \in 1..Len(q) : q[i] = v})]

SameRecord(x, r) ==
    /\ x.name = r.name
    /\ x.type = r.type
    /\ x.ttl = r.ttl
    /\ BagOf(x.values) = BagOf(r.values)

Count(q, Test(_)) == Cardinality({i \in 1..Len(q) : Test(q[i])})

IsCreateCall(c) == c.call = "create_zone"
IsUpdateCall(c) == c.call = "update_zone"
IsGet(r) == r.method = "GET"
IsPost(r) == r.method = "POST"
IsPut(r) == r.method = "PUT"

\* the zone names the directory lists in the current state: the cache when
\* it is populated, else what the bulk fetch would build
ListedNames ==
    IF ~mapIsNone THEN DOMAIN common_service_item_map
    ELSE {_add_trailing_dot(remote[i].Zone) :
            i \in {j \in 1..Len(remote) : remote[j].ServiceClass = DNS_CLASS}}

\* C2: zone creation flow.  In an _apply that obtained the name list: when the
\* zone name is absent from the list, create_zone is issued exactly once, as
\* the first directory call and before update_zone; when it is present,
\* create_zone is not issued.  A successful _apply issues update_zone exactly
\* once (one PUT), as its last call.
C2_CreationFlow ==
    [][(op'.name = "_apply" /\ ~(\E i \in 1..Len(http') : IsGet(http'[i]) /\ ~http'[i].ok))
        => /\ IF op'.zone \notin ListedNames
              THEN /\ Count(calls', IsCreateCall) = 1
                   /\ calls'[1].call = "create_zone" /\ calls'[1].zone = op'.zone
                   /\ Count(http', IsPost) = 1
                   /\ \A i, j \in 1..Len(http') :
                         IsPost(http'[i]) /\ IsPut(http'[j]) => i < j
              ELSE Count(calls', IsCreateCall) = 0 /\ Count(http', IsPost) = 0
           /\ op'.outcome = "ok" =>
                 /\ Count(calls', IsUpdateCall) = 1
                 /\ calls'[Len(calls')].call = "update_zone"
                 /\ calls'[Len(calls')].zone = op'.zone
                 /\ Count(http', IsPut) = 1
           /\ Count(calls', IsUpdateCall) <= 1]_vars

C2_Witness ==
    /\ op.name = "_apply" /\ op.outcome = "ok"
    /\ Len(calls) = 2 /\ calls[1].call = "create_zone" /\ calls[2].call = "update_zone"
    /\ Len(http) = 2 /\ http[1].method = "POST" /\ http[2].method = "PUT"

\* C3: whole-zone replacement.  The rows _apply passes to update_zone (and
\* the PUT carries) are the flattening of all records of the desired zone:
\* for each record as many rows under its wire name and type as it has
\* values, each value's rdata among them, and no row of any other name and
\* type; records no change names are included, and a record named only in a
\* Delete change has no row.
C3_WholeZone ==
    (op.name = "_apply" /\ Count(calls, IsUpdateCall) > 0) =>
        LET rows == calls[Len(calls)].rows
            D == op.plan.desired.records
            Wire(r) == IF r.name = "" THEN "@" ELSE r.name
            RowsOf(r) == {i \in 1..Len(rows) :
                            rows[i].Name = Wire(r) /\ rows[i].Type = r.type}
        IN  /\ \A r \in D :
                  /\ Cardinality(RowsOf(r)) = Len(r.values)
                  /\ \A j \in 1..Len(r.values) :
                        \E i \in RowsOf(r) :
                            parse_rdata_text(r.type, rows[i].RData) = <<r.values[j]>>
            /\ \A i \in 1..Len(rows) : \E r \in D : i \in RowsOf(r)
            /\ \A c \in op.plan.changes :
                  (c.kind = "Delete" /\ c.existing \notin D) => RowsOf(c.existing) = {}
            /\ \E i \in 1..Len(http) : IsPut(http[i]) /\ http[i].body = rows

C3_Witness ==
    /\ op.name = "_apply" /\ op.outcome = "ok"
    /\ op.plan.desired.records = {RA, RM}
    /\ \A c \in op.plan.changes : c.kind # "Delete" => c.new # RA
    /\ \E c \in op.plan.changes : c.kind = "Delete"
    /\ Len(calls[Len(calls)].rows) = 3

\* the directory state the next call starts from
DirNext ==
    [remote |-> remote', isNone |-> mapIsNone', map |-> common_service_item_map',
     http |-> <<>>, outcome |-> "ok", fetched |-> fetched', created |-> created',
     failure |-> "HTTPError"]

\* a call that writes the cache entry of zone name n
WritesEntry(o, n) ==
    /\ o.name \in {"create_zone", "update_zone", "_apply"}
    /\ o.zone = n
    /\ o.outcome = "ok"

\* C4 as stated: after a successful create_zone(n), get_zone(n) returns the
\* handle the create response carried, in every later state, and issues no
\* bulk fetch.
C4_CreatedHandleForever ==
    \A n \in DOMAIN created :
        LET g == get_zone(Dir, n, FALSE)
        IN  g.ret = <<created[n]>> /\ g.dir.http = <<>>

\* C4, amended: after a successful create_zone(n), get_zone(n) issues no bulk
\* fetch and returns a handle of the created resource (the ID of the create
\* response); right after the create it is the handle the create response
\* carried, and it stays that handle until a later successful create_zone or
\* update_zone for n replaces the entry.
C4_CreatedHandleUntilReplaced ==
    /\ [](\A n \in DOMAIN created :
            LET g == get_zone(Dir, n, FALSE)
            IN  /\ g.dir.http = <<>>
                /\ Len(g.ret) = 1
                /\ g.ret[1].ID = created[n].ID)
    /\ [][\A n \in DOMAIN created' :
            LET g == get_zone(DirNext, n, FALSE)
            IN  \/ g.ret = <<created'[n]>>
                \/ /\ n \in DOMAIN created
                   /\ g.ret = get_zone(Dir, n, FALSE).ret
                \/ WritesEntry(op', n) /\ op'.name # "create_zone"]_vars

C4_Witness ==
    /\ op.name = "get_zone" /\ op.zone = ZA /\ op.outcome = "ok"
    /\ ZA \in DOMAIN created
    /\ op.ret = <<created[ZA]>>
    /\ http = <<>>

\* C5: update_zone(name, rows) on a cached name issues one request, a PUT to
\* the id of the handle cached for name with exactly the given rows; on
\* success the cache entry of name is the handle of the PUT response, so a
\* following get_zone(name) returns the given rows as the record list, and
\* populate decodes them, with no bulk fetch.
C5_UpdateRefreshes ==
    [][(op'.name = "update_zone" /\ op'.outcome \notin {"TypeError", "KeyError"})
        => /\ ~mapIsNone /\ op'.zone \in DOMAIN common_service_item_map
           /\ Len(http') = 1
           /\ http'[1].method = "PUT"
           /\ http'[1].id = common_service_item_map[op'.zone].ID
           /\ http'[1].body = op'.rows
           /\ op'.outcome = "ok" =>
                 LET g == get_zone(DirNext, op'.zone, FALSE)
                     q == populate(DirNext, op'.zone, {}, FALSE, FALSE)
                 IN  /\ g.dir.http = <<>>
                     /\ Len(g.ret) = 1
                     /\ g.ret[1] = ItemById(remote', http'[1].id)
                     /\ g.ret[1].RRs = op'.rows
                     /\ q.dir.http = <<>>
                     /\ q.records = Range(Decode(op'.rows, FALSE).records)]_vars

C5_Witness ==
    /\ op.name = "update_zone" /\ op.outcome = "ok" /\ op.rows = InitRows
    /\ common_service_item_map[op.zone].RRs = InitRows
    /\ Len(http) = 1 /\ http[1].method = "PUT"

\* C6: the bulk fetch happens once.  Over any sequence of calls the session
\* issues at most one GET /commonserviceitem; a call issues it only when the
\* cache is still unpopulated, and every call that reaches the cache accessor
\* then issues it (get_zone, get_zone_names, populate, _apply, and create_zone
\* once its POST succeeded); once the cache is populated no call issues it.
C6_FetchOnce ==
    /\ [](nGet <= 1)
    /\ [][/\ Count(http', IsGet) > 0 => mapIsNone /\ ~mapIsNone' /\ nGet = 0
          /\ ~mapIsNone => Count(http', IsGet) = 0 /\ ~mapIsNone'
          /\ (mapIsNone
                /\ op'.name \in {"get_zone", "get_zone_names", "populate", "_apply"})
                => Count(http', IsGet) = 1 /\ http'[1].method = "GET"
          /\ (mapIsNone /\ op'.name = "create_zone"
                /\ Count(http', IsPost) = 1 /\ http'[1].ok)
                => Count(http', IsGet) = 1]_vars

C6_Witness ==
    /\ nGet = 1 /\ ~mapIsNone
    /\ op.name = "get_zone" /\ op.outcome = "ok" /\ op.ret # <<>>
    /\ http = <<>>

EndsWithDot(n) == Len(n) > 0 /\ n[Len(n)] = "."

\* C7: zone-name equivalence.  For every zone name n without the trailing
\* delimiter, get_zone(n) and get_zone(n + ".") return the same result, in
\* every reachable cache state.
C7_NameEquivalence ==
    \A n \in ZoneNames :
        ~EndsWithDot(n) =>
            get_zone(Dir, n, TRUE).ret = get_zone(Dir, Append(n, "."), TRUE).ret

\* C8: create_zone(name), name with or without the trailing delimiter, POSTs
\* Name and Status.Zone without the delimiter and an empty record list, and
\* stores the returned handle under the trailing-delimiter form of the name;
\* so every key of the cache ends with the trailing delimiter.
C8_KeysCanonical ==
    /\ (op.name = "create_zone" /\ op.outcome = "ok") =>
          /\ \E i \in 1..Len(http) :
                /\ IsPost(http[i])
                /\ http[i].body.Name = _remove_trailing_dot(op.zone)
                /\ http[i].body.Zone = _remove_trailing_dot(op.zone)
                /\ ~EndsWithDot(http[i].body.Name)
                /\ http[i].body.RRs = <<>>
          /\ _add_trailing_dot(op.zone) \in DOMAIN common_service_item_map
          /\ common_service_item_map[_add_trailing_dot(op.zone)] = created[op.zone]
    /\ \A k \in DOMAIN common_service_item_map : EndsWithDot(k)

\* C9: service-class filter.  A cache entry that no create_zone stored is
\* there only if the fetched list holds an item of service class
\* "cloud/dns" whose Status.Zone with the trailing delimiter added is the
\* entry's name, and right after the bulk fetch of a lookup the cache holds
\* exactly those names; every handle get_zone returns and the cache holds
\* is of that class, and every name get_zone_names lists is such a name or a
\* created one, also when another class's item carries the name.
DnsNames(items) ==
    {_add_trailing_dot(items[i].Zone) :
        i \in {j \in 1..Len(items) : items[j].ServiceClass = DNS_CLASS}}

C9_ServiceClassFilter ==
    /\ \A k \in DOMAIN common_service_item_map :
          /\ common_service_item_map[k].ServiceClass = DNS_CLASS
          /\ k \in DOMAIN created \/ k \in DnsNames(fetched)
    /\ (op.name \in {"get_zone", "get_zone_names", "populate"}
          /\ Count(http, IsGet) = 1 /\ http[1].ok)
          => DOMAIN common_service_item_map = DnsNames(fetched)
    /\ (op.name = "get_zone" /\ op.ret # <<>>) =>
          op.ret[1].ServiceClass = DNS_CLASS
    /\ op.name = "get_zone_names" =>
          op.ret \subseteq DnsNames(fetched) \cup DOMAIN created

C9_Witness ==
    /\ op.name = "get_zone" /\ op.zone = ZB /\ op.outcome = "ok" /\ op.ret = <<>>
    /\ Count(http, IsGet) = 1
    /\ \E i \in 1..Len(fetched) :
          fetched[i].ServiceClass # DNS_CLASS /\ fetched[i].Zone = T("b")
    /\ \E i \in 1..Len(fetched) : fetched[i].ServiceClass = DNS_CLASS

\* C10: a populate that returns, on a zone name get_zone does not find,
\* returns False and leaves the caller's record collection as it was; on a
\* zone name that is found it returns True, also when the zone's record list
\* is empty.
C10_PopulateExists ==
    (op.name = "populate" /\ op.outcome = "ok") =>
        IF op.zone \in DOMAIN common_service_item_map
        THEN op.ret = TRUE
        ELSE op.ret = FALSE /\ op.records = op.before

C10_Witness ==
    /\ op.name = "populate" /\ op.outcome = "ok"
    /\ op.zone \notin DOMAIN common_service_item_map
    /\ DOMAIN common_service_item_map # {}
    /\ op.ret = FALSE /\ op.before = {RT} /\ op.records = {RT}

C10_WitnessEmptyZone ==
    /\ op.name = "populate" /\ op.outcome = "ok" /\ op.ret = TRUE
    /\ common_service_item_map[op.zone].RRs = <<>>
    /\ op.records = op.before

\* a request of the call that just ended failed
RequestFailed == \E i \in 1..Len(http) : ~http[i].ok

\* the rows populate read: the record list of the handle cached for the zone
ZoneRows == common_service_item_map[op.zone].RRs

\* the records populate attached to the caller's zone
Attached == op.records \ op.before

StructName(n) == IF n = "@" THEN "" ELSE n

\* the positions of the rows of supported type with a structured name and type
RowsOfPair(rows, name, type) ==
    {i \in 1..Len(rows) :
        /\ rows[i].Type \in SUPPORTS
        /\ StructName(rows[i].Name) = name /\ rows[i].Type = type}

PairsOf(rows) ==
    {<<StructName(rows[i].Name), rows[i].Type>> :
        i \in {j \in 1..Len(rows) : rows[j].Type \in SUPPORTS}}

\* a set of positions in ascending order
Ascending(S) ==
    CHOOSE q \in [1..Cardinality(S) -> S] :
        \A i, j \in 1..Cardinality(S) : i < j => q[i] < q[j]

\* record r holds the rdata of all rows of its pair, in arrival order, and
\* the TTL of the first of them (the default when that row carries none)
HoldsItsRows(r, rows) ==
    LET idx == Ascending(RowsOfPair(rows, r.name, r.type))
        first == rows[idx[1]]
    IN  /\ Len(idx) > 0
        /\ Len(r.values) = Len(idx)
        /\ \A k \in 1..Len(idx) :
              parse_rdata_text(r.type, rows[idx[k]].RData) = <<r.values[k]>>
        /\ r.ttl = IF "TTL" \in DOMAIN first THEN first.TTL ELSE 3600

\* one record per pair of the rows, each holding its rows, and no other
Grouped(records, rows) ==
    /\ \A p \in PairsOf(rows) :
          Cardinality({r \in records : r.name = p[1] /\ r.type = p[2]}) = 1
    /\ \A r \in records : HoldsItsRows(r, rows)

RowsFor(r) ==
    {i \in 1..Len(rrsets) :
        /\ rrsets[i].Type = r.type
        /\ rrsets[i].Name = IF r.name = "" THEN "@" ELSE r.name}

HasTTL(rr) == "TTL" \in DOMAIN rr

\* the ttl the decoder gives a group that starts with row rr
FirstRowTTL(rr) == IF HasTTL(rr) THEN rr.TTL ELSE 3600

\* two rows of one key, as the decoder may meet them
SameKeyPairs ==
    {q \in [1..2 -> RawRowUniverse] :
        /\ q[1].Name = q[2].Name /\ q[1].Type = q[2].Type
        /\ q[1].Type \in SUPPORTS \ SingleValueTypes
        /\ \A i \in 1..2 : parse_rdata_text(q[i].Type, q[i].RData) # <<>>}

\* C12: TTL default asymmetry.  Every row the encoder emits for a record has
\* no TTL field when the record's ttl is 3600 and the field TTL equal to the
\* record's ttl otherwise, ttl 0 included; the decoder gives a group the ttl
\* 3600 when its first row has no TTL field and that row's TTL otherwise; so
\* the decoded record of every desired record has the record's ttl.
C12_TTLAsymmetry ==
    /\ phase \in {"encoded", "decoded"} =>
          \A r \in desired :
              /\ RowsFor(r) # {}
              /\ \A i \in RowsFor(r) :
                    /\ HasTTL(rrsets[i]) <=> r.ttl # 3600
                    /\ HasTTL(rrsets[i]) => rrsets[i].TTL = r.ttl
    /\ phase = "decoded" =>
          /\ decoded.ok
          /\ \A r \in desired :
                \E k \in 1..Len(decoded.records) :
                    /\ decoded.records[k].name = r.name
                    /\ decoded.records[k].type = r.type
                    /\ decoded.records[k].ttl = r.ttl
                    /\ decoded.records[k].ttl =
                          FirstRowTTL(rrsets[Ascending(RowsFor(r))[1]])
          /\ \A q \in SameKeyPairs :
                LET dec == Decode(q, FALSE)
                IN  /\ dec.ok /\ Len(dec.records) = 1
                    /\ dec.records[1].ttl = FirstRowTTL(q[1])

C12_Witness ==
    /\ phase = "decoded"
    /\ \E r1, r2 \in desired : r1.ttl = 0 /\ r2.ttl = 3600
    /\ \E i, j \in 1..Len(rrsets) :
          /\ HasTTL(rrsets[i]) /\ rrsets[i].TTL = 0
          /\ ~HasTTL(rrsets[j])
    /\ \E k \in 1..Len(decoded.records) : decoded.records[k].ttl = 0
    /\ \E k \in 1..Len(decoded.records) : decoded.records[k].ttl = 3600

\* C13: apex naming.  Every row the encoder emits for a record with the
\* empty name has wire name "@", every row of another record carries the
\* record's name, and no row has another name; the decoder gives the record
\* of a group with wire name "@" the empty name and the record of any other
\* group the wire name itself.
C13_ApexNaming ==
    /\ phase \in {"encoded", "decoded"} =>
          /\ \A r \in desired :
                Cardinality({i \in 1..Len(rrsets) :
                    /\ rrsets[i].Type = r.type
                    /\ rrsets[i].Name = IF r.name = "" THEN "@" ELSE r.name})
                  = Len(r.values)
          /\ \A i \in 1..Len(rrsets) :
                /\ rrsets[i].Name # ""
                /\ \E r \in desired :
                      /\ rrsets[i].Type = r.type
                      /\ IF rrsets[i].Name = "@" THEN r.name = ""
                         ELSE r.name = rrsets[i].Name
    /\ phase = "decoded" =>
          /\ \A i \in 1..Len(rrsets) :
                \E k \in 1..Len(decoded.records) :
                    /\ decoded.records[k].type = rrsets[i].Type
                    /\ decoded.records[k].name =
                          IF rrsets[i].Name = "@" THEN "" ELSE rrsets[i].Name
          /\ \A k \in 1..Len(decoded.records) :
                /\ decoded.records[k].name # "@"
                /\ \E i \in 1..Len(rrsets) :
                      /\ decoded.records[k].type = rrsets[i].Type
                      /\ decoded.records[k].name =
                            IF rrsets[i].Name = "@" THEN "" ELSE rrsets[i].Name

C13_Witness ==
    /\ phase = "decoded"
    /\ \E r1, r2 \in desired : r1.name = "" /\ r2.name = "www"
    /\ \E i, j \in 1..Len(rrsets) : rrsets[i].Name = "@" /\ rrsets[j].Name = "www"
    /\ \E k, l \in 1..Len(decoded.records) :
          decoded.records[k].name = "" /\ decoded.records[l].name = "www"

\* a row list without its rows of a type outside the supported set
RECURSIVE OnlySupported(_)
OnlySupported(rows) ==
    IF rows = <<>> THEN <<>>
    ELSE IF Head(rows).Type \in
              {"A", "AAAA", "ALIAS", "CAA", "CNAME", "HTTPS", "MX", "NS", "PTR",
               "SRV", "SVCB", "TXT"}
         THEN <<Head(rows)>> \o OnlySupported(Tail(rows))
         ELSE OnlySupported(Tail(rows))

\* the directory of the current state with the zone's rows of unsupported
\* type taken out of the cached handle
DirWithoutUnsupported(zone) ==
    [Dir EXCEPT !.map = [common_service_item_map EXCEPT
                            ![zone].RRs = OnlySupported(@)]]

\* C14: unsupported-type filtering.  For every raw row sequence of a zone
\* populate finds, no attached record has a type outside the supported set,
\* and populate ends as it does on the same rows without the rows of
\* unsupported type: the same outcome (so such a row raises no error), the
\* same return value and the same records.
C14_UnsupportedDropped ==
    (op.name = "populate" /\ ~RequestFailed
        /\ op.zone \in DOMAIN common_service_item_map)
        => LET q == populate(DirWithoutUnsupported(op.zone), op.zone, op.before,
                             op.lenient, TRUE)
           IN  /\ \A r \in Attached : r.type \in SUPPORTS
               /\ q.dir.outcome = op.outcome
               /\ q.ret = op.ret
               /\ q.records = op.records
               /\ \A i \in 1..Len(ZoneRows) :
                     ZoneRows[i].Type \notin SUPPORTS =>
                        \A r \in Attached :
                            \A k \in 1..Len(r.values) :
                                <<r.values[k]>> #
                                    parse_rdata_text(r.type, ZoneRows[i].RData)

C14_Witness ==
    /\ op.name = "populate" /\ op.outcome = "ok" /\ op.ret = TRUE
    /\ Len(ZoneRows) = 3
    /\ ZoneRows[1].Type \in SUPPORTS
    /\ ZoneRows[2].Type \notin SUPPORTS
    /\ ZoneRows[3].Type \in SUPPORTS
    /\ Cardinality(Attached) = 2

\* C15: cache isolation.  A create_zone or update_zone call for zone name A
\* (alone or inside _apply), whether it succeeds or raises, leaves every
\* cache entry of another name B as it was: an entry held before the call is
\* held unchanged after it, and a call on a populated cache adds no entry of
\* another name.  (On an unpopulated cache the only entries of other names
\* that appear are handles the call's bulk fetch returned.)
C15_CacheIsolation ==
    [][op'.name \in {"create_zone", "update_zone", "_apply"} =>
        \A B \in (DOMAIN common_service_item_map
                    \cup DOMAIN common_service_item_map') \ {op'.zone} :
            /\ B \in DOMAIN common_service_item_map =>
                  /\ B \in DOMAIN common_service_item_map'
                  /\ common_service_item_map'[B] = common_service_item_map[B]
            /\ B \notin DOMAIN common_service_item_map =>
                  /\ mapIsNone
                  /\ \E i \in 1..Len(fetched') :
                        /\ fetched'[i] = common_service_item_map'[B]
                        /\ fetched'[i].Zone \o <<".">> = B]_vars

C15_Witness ==
    /\ op.name = "update_zone" /\ op.outcome = "ok" /\ op.zone = ZA
    /\ ZB \in DOMAIN common_service_item_map
    /\ common_service_item_map[ZA].RRs = op.rows
    /\ common_service_item_map[ZB].RRs # op.rows

\* C16: uniform failure without retry.  When a request of a call meets a
\* transport fault or a non-2xx response, the call issued that request once,
\* issued no request after it, and raised SakuraCloudException.
C16_UniformFailure ==
    \A i \in 1..Len(http) :
        ~http[i].ok =>
            /\ i = Len(http)
            /\ \A j \in 1..Len(http) : http[j].method = http[i].method => j = i
            /\ op.outcome = "SakuraCloudException"

\* the rows some plan's desired zone flattens to
AppliedRowLists ==
    {Flatten(order) : order \in UNION {Orderings(ApplyRecords(plan)) : plan \in Plans}}

\* C17: failure isolation across zones.  An _apply for a zone that raises
\* leaves the cache entry of every other zone name as it was, changes no
\* remote resource that existed before it (so the record lists of the zones
\* applied earlier stay as their own apply left them), and adds at most the
\* resource it created for its own zone.
C17_FailedApplyIsolated ==
    [][(op'.name = "_apply" /\ op'.outcome # "ok") =>
        /\ \A Y \in DOMAIN common_service_item_map \ {op'.zone} :
              /\ Y \in DOMAIN common_service_item_map'
              /\ common_service_item_map'[Y] = common_service_item_map[Y]
        /\ Len(remote') \in {Len(remote), Len(remote) + 1}
        /\ \A i \in 1..Len(remote) : remote'[i] = remote[i]
        /\ \A i \in (Len(remote) + 1)..Len(remote') :
              remote'[i].Zone \o <<".">> = op'.zone]_vars

C17_Witness ==
    /\ op.name = "_apply" /\ op.outcome # "ok" /\ op.zone = ZB
    /\ ZA \in DOMAIN common_service_item_map
    /\ common_service_item_map[ZA].RRs \in AppliedRowLists
    /\ \E i \in 1..Len(remote) :
          remote[i] = common_service_item_map[ZA]
    /\ \E i \in 1..Len(remote) : remote[i].Zone = T("b") /\ remote[i].RRs = <<>>
    /\ Count(http, IsPost) = 1 /\ Count(http, IsPut) = 1

\* the text  <flags> <tag> "<value>"
QuotedCaa(v) ==
    <<Numerals[v.flags + 1], " ">> \o v.tag \o <<" ", "\"">> \o v.value \o <<"\"">>

\* C18: CAA encoding.  For every value {flags, tag, value} of a CAA record
\* the encoder emits a row whose rdata is the flags, a space, the tag, a
\* space and the value wrapped in double quotes, and the record's rows are
\* exactly these (for {0, issue, ca.example.com}: 0 issue "ca.example.com");
\* the rdata of a row of any other type holds no double quote.
C18_CaaQuoted ==
    phase \in {"encoded", "decoded"} =>
        /\ \A r \in desired :
              r.type = "CAA" =>
                  /\ \A k \in 1..Len(r.values) :
                        \E i \in RowsFor(r) : rrsets[i].RData = QuotedCaa(r.values[k])
                  /\ \A i \in RowsFor(r) :
                        \E k \in 1..Len(r.values) : rrsets[i].RData = QuotedCaa(r.values[k])
                  /\ Cardinality(RowsFor(r)) = Len(r.values)
        /\ \A i \in 1..Len(rrsets) :
              rrsets[i].Type # "CAA" =>
                  \A j \in 1..Len(rrsets[i].RData) : rrsets[i].RData[j] # "\""

C18_Witness ==
    /\ phase = "encoded"
    /\ \E r \in desired :
          /\ r.type = "CAA"
          /\ r.values[1] = [flags |-> 0, tag |-> <<"issue">>, value |-> <<"ca.example.com">>]
    /\ \E r \in desired : r.type = "TXT"
    /\ \E i \in 1..Len(rrsets) :
          rrsets[i].RData = <<"0", " ", "issue", " ", "\"", "ca.example.com", "\"">>

\* C19: state unchanged on error.  A get_zone, get_zone_names, create_zone
\* or update_zone call that raises leaves the cache as it was before the
\* call; a call whose bulk fetch failed leaves the cache unpopulated, so the
\* next lookup issues the bulk fetch again.
C19_CacheUnchangedOnError ==
    /\ [][(op'.name \in {"get_zone", "get_zone_names", "create_zone", "update_zone"}
            /\ op'.outcome # "ok")
          => /\ mapIsNone' = mapIsNone
             /\ common_service_item_map' = common_service_item_map]_vars
    /\ []((\E i \in 1..Len(http) : http[i].method = "GET" /\ ~http[i].ok)
            => /\ mapIsNone
               /\ Len(get_zone(Dir, ZA, TRUE).dir.http) = 1
               /\ Len(get_zone_names(Dir, TRUE).dir.http) = 1)

\* the remote DNS zone resources of a zone name
RemoteZones(items, zone_name) ==
    {i \in 1..Len(items) :
        /\ items[i].ServiceClass = "cloud/dns"
        /\ items[i].Zone \o <<".">> = zone_name}

\* C20: no duplicate zone creation.  Over any sequence of populate and
\* _apply calls of one provider, failed calls included, an _apply issues the
\* POST that creates its zone only when no DNS zone resource of that name
\* exists remotely at that moment; so the account never holds two DNS zone
\* resources of one name.
C20_NoDuplicateCreate ==
    /\ [][(op'.name = "_apply" /\ \E i \in 1..Len(http') : http'[i].method = "POST")
          => RemoteZones(remote, op'.zone) = {}]_vars
    /\ [](\A z \in ZoneModelNames : Cardinality(RemoteZones(remote, z)) <= 1)

\* the _apply that just ended created its zone and then failed in update_zone
PartialApply ==
    /\ op.name = "_apply" /\ op.outcome # "ok"
    /\ Len(calls) = 2
    /\ calls[1].call = "create_zone" /\ calls[2].call = "update_zone"

\* the remote resources with an ID
RemoteById(items, id) == {i \in 1..Len(items) : items[i].ID = id}

\* C21: partial apply and recovery.  After an _apply that created its zone
\* and then failed in update_zone, the created resource is still there with
\* an empty record list, remotely and as the zone's cache entry; an _apply
\* for that zone from this state issues update_zone only (one PUT, no POST,
\* no new resource) and on success leaves the resource and the cache entry
\* holding the full row list of the desired zone.  In every later _apply for
\* a zone whose cache entry is still the created handle the same holds: no
\* create_zone, and on success the rows it passed are the zone's rows.
C21_PartialApplyRecovery ==
    /\ [](PartialApply =>
            LET Z == op.zone
            IN  /\ ~mapIsNone /\ Z \in DOMAIN common_service_item_map
                /\ Z \in DOMAIN created
                /\ common_service_item_map[Z] = created[Z]
                /\ common_service_item_map[Z].RRs = <<>>
                /\ \E i \in 1..Len(remote) :
                      /\ remote[i] = common_service_item_map[Z]
                      /\ remote[i].Zone \o <<".">> = Z
                      /\ remote[i].RRs = <<>>
                /\ \A plan \in {q \in Plans : q.desired.name = Z} :
                      \A order \in Orderings(plan.desired.records) :
                          LET r == _apply(Dir, plan, order, TRUE, TRUE, TRUE)
                              id == common_service_item_map[Z].ID
                          IN  /\ r.dir.outcome = "ok"
                              /\ Len(r.calls) = 1 /\ r.calls[1].call = "update_zone"
                              /\ Len(r.dir.http) = 1
                              /\ r.dir.http[1].method = "PUT"
                              /\ r.dir.http[1].id = id
                              /\ Len(r.dir.remote) = Len(remote)
                              /\ r.dir.map[Z].ID = id
                              /\ r.dir.map[Z].RRs = Flatten(order)
                              /\ \A i \in RemoteById(r.dir.remote, id) :
                                    r.dir.remote[i].RRs = Flatten(order)
                              /\ Len(Flatten(order)) > 0)
    /\ [][(/\ op'.name = "_apply"
           /\ ~mapIsNone
           /\ op'.zone \in DOMAIN created \cap DOMAIN common_service_item_map
           /\ common_service_item_map[op'.zone] = created[op'.zone])
          => /\ \A i \in 1..Len(calls') : calls'[i].call # "create_zone"
             /\ \A i \in 1..Len(http') : http'[i].method = "PUT"
             /\ Len(remote') = Len(remote)
             /\ op'.outcome = "ok" =>
                   /\ Len(calls') = 1 /\ calls'[1].call = "update_zone"
                   /\ common_service_item_map'[op'.zone].ID = created[op'.zone].ID
                   /\ common_service_item_map'[op'.zone].RRs = calls'[1].rows
                   /\ \A i \in RemoteById(remote', created[op'.zone].ID) :
                         remote'[i].RRs = calls'[1].rows]_vars

C21_Witness ==
    /\ PartialApply
    /\ op.zone = ZB
    /\ Len(http) = 2
    /\ http[1].method = "POST" /\ http[1].ok
    /\ http[2].method = "PUT" /\ ~http[2].ok
    /\ common_service_item_map[ZB].RRs = <<>>
    /\ \E i \in 1..Len(remote) : remote[i].Zone = <<"b">> /\ remote[i].RRs = <<>>

====
